---- MODULE Spec2Model ----
(***************************************************************************)
(* ejudge-users: bulk (un)registration of users in contests through one    *)
(* HTTP endpoint.  Model of cmd/ejudge-users/main.go.                      *)
(*                                                                         *)
(* Go strings are sequences of one-character strings, so that trimming,    *)
(* splitting, truncation and parsing are computed as the code computes     *)
(* them.  A nil pointer (ID, Error) is the empty sequence, a               *)
(* present one a sequence of length one.                                   *)
(***************************************************************************)
EXTENDS Integers, Sequences, FiniteSets, TLC

VARIABLES pc, flags, configFile, action, users, contests, cfg, token, baseURL,
          ci, ui, calls, failures, logged, exitCode, call, ret

mainVars == <<pc, flags, configFile, action, users, contests, cfg, token, baseURL,
              ci, ui, calls, failures, logged, exitCode>>
vars == <<pc, flags, configFile, action, users, contests, cfg, token, baseURL,
          ci, ui, calls, failures, logged, exitCode, call, ret>>

(***************************************************************************)
(* Bounds of the model.                                                    *)
(***************************************************************************)
MaxLen == 7
MaxCLen == 5
MaxUsers == 2

(***************************************************************************)
(* Sequence and string helpers (package strings, strconv).                 *)
(***************************************************************************)
MinOf(S) == CHOOSE x \in S : \A y \in S : x <= y
MaxOf(S) == CHOOSE x \in S : \A y \in S : x >= y

StringsUpTo(Alphabet, n) == UNION {[1..k -> Alphabet] : k \in 0..n}

IsSpace(c) == c \in {" ", "\t", "\n", "\r"}

Digits == <<"0", "1", "2", "3", "4", "5", "6", "7", "8", "9">>
IsDigit(c) == \E d \in 1..10 : Digits[d] = c
DigitVal(c) == (CHOOSE d \in 1..10 : Digits[d] = c) - 1

TrimSpaceKeepsAll(s) == s
TrimSpace(s) ==
  LET keep == {i \in 1..Len(s) : ~IsSpace(s[i])}
  IN IF keep = {} THEN <<>> ELSE SubSeq(s, MinOf(keep), MaxOf(keep))

\* strings.FieldsFunc(s, f) for f(r) = (r \in seps): the maximal runs of
\* characters that are no separators
RECURSIVE FieldsFrom(_, _, _, _)
FieldsFrom(s, i, cur, seps) ==
  IF i > Len(s)
    THEN IF cur = <<>> THEN <<>> ELSE <<cur>>
    ELSE IF s[i] \in seps
      THEN (IF cur = <<>> THEN <<>> ELSE <<cur>>) \o FieldsFrom(s, i + 1, <<>>, seps)
      ELSE FieldsFrom(s, i + 1, Append(cur, s[i]), seps)
FieldsFunc(s, seps) == FieldsFrom(s, 1, <<>>, seps)

\* strings.SplitN(s, sep, 2) for a one-character separator
SplitN2(s, sep) ==
  LET at == {i \in 1..Len(s) : s[i] = sep}
  IN IF at = {} THEN <<s>>
     ELSE <<SubSeq(s, 1, MinOf(at) - 1), SubSeq(s, MinOf(at) + 1, Len(s))>>

RECURSIVE DecimalValue(_)
DecimalValue(s) ==
  IF s = <<>> THEN 0
  ELSE 10 * DecimalValue(SubSeq(s, 1, Len(s) - 1)) + DigitVal(s[Len(s)])

\* strconv.Atoi: an optional sign and at least one decimal digit.  The
\* strings of the model are too short to leave the range of int.
Atoi(s) ==
  IF s = <<>> THEN [ok |-> FALSE, val |-> 0]
  ELSE LET signed == s[1] \in {"-", "+"}
           body == IF signed THEN Tail(s) ELSE s
       IN IF body # <<>> /\ \A i \in 1..Len(body) : IsDigit(body[i])
            THEN [ok |-> TRUE,
                  val |-> IF s[1] = "-" THEN 0 - DecimalValue(body)
                                        ELSE DecimalValue(body)]
            ELSE [ok |-> FALSE, val |-> 0]

NoErr == [kind |-> "nil"]

(***************************************************************************)
(* List parsers.                                                           *)
(***************************************************************************)
ListSeps == {";", ","}

RECURSIVE TrimAndDrop(_)
TrimAndDrop(parts) ==
  IF parts = <<>> THEN <<>>
  ELSE LET trimmed == TrimSpace(Head(parts))
       IN (IF trimmed # <<>> THEN <<trimmed>> ELSE <<>>) \o TrimAndDrop(Tail(parts))

splitList(raw) == TrimAndDrop(FieldsFunc(raw, ListSeps))

RECURSIVE parseUserItems(_, _)
parseUserItems(items, acc) ==
  IF items = <<>> THEN [err |-> NoErr, users |-> acc]
  ELSE LET item == Head(items)
           parts == SplitN2(item, ":")
       IN IF Len(parts) # 2
            THEN [err |-> [kind |-> "invalid user specification", item |-> item],
                  users |-> <<>>]
          ELSE LET idPart == TrimSpace(parts[1])
                   namePart == TrimSpace(parts[2])
                   id == Atoi(idPart)
               IN IF idPart = <<>>
                    THEN [err |-> [kind |-> "user identifier is empty", item |-> item],
                          users |-> <<>>]
                  ELSE IF namePart = <<>>
                    THEN [err |-> [kind |-> "user name is empty", item |-> item],
                          users |-> <<>>]
                  ELSE parseUserItems(Tail(items),
                         Append(acc, [ID |-> IF id.ok THEN <<id.val>> ELSE <<>>,
                                      Login |-> idPart, Name |-> namePart]))

parseUsers(raw) ==
  LET items == splitList(raw)
  IN IF Len(items) = 0
       THEN [err |-> [kind |-> "user list is empty"], users |-> <<>>]
       ELSE parseUserItems(items, <<>>)

RECURSIVE parseContestItems(_, _)
parseContestItems(items, acc) ==
  IF items = <<>> THEN [err |-> NoErr, ids |-> acc]
  ELSE LET id == Atoi(Head(items))
       IN IF ~id.ok
            THEN [err |-> [kind |-> "invalid contest ID", item |-> Head(items)],
                  ids |-> <<>>]
            ELSE parseContestItems(Tail(items), Append(acc, id.val))

parseContestIDs(raw) ==
  LET items == splitList(raw)
  IN IF Len(items) = 0
       THEN [err |-> [kind |-> "contest list is empty"], ids |-> <<>>]
       ELSE parseContestItems(items, <<>>)

(***************************************************************************)
(* encoding/json, the part json.Unmarshal(body, &reply) uses.  Subset:     *)
(* objects, arrays, strings without escape sequences, integers, true,      *)
(* false, null, white space.  No body of the model leaves the subset.      *)
(***************************************************************************)
LowerCaseLetters == <<"a", "b", "c", "d", "e", "f", "g", "h", "i", "j", "k", "l", "m",
                      "n", "o", "p", "q", "r", "s", "t", "u", "v", "w", "x", "y", "z">>
UpperCaseLetters == <<"A", "B", "C", "D", "E", "F", "G", "H", "I", "J", "K", "L", "M",
                      "N", "O", "P", "Q", "R", "S", "T", "U", "V", "W", "X", "Y", "Z">>
ToLowerChar(c) ==
  IF \E k \in 1..26 : UpperCaseLetters[k] = c
    THEN LowerCaseLetters[CHOOSE k \in 1..26 : UpperCaseLetters[k] = c]
    ELSE c
ToLower(s) == [i \in 1..Len(s) |-> ToLowerChar(s[i])]

HasPrefixAt(s, i, p) == i + Len(p) - 1 <= Len(s) /\ SubSeq(s, i, i + Len(p) - 1) = p

RECURSIVE SkipWS(_, _)
SkipWS(s, i) == IF i <= Len(s) /\ IsSpace(s[i]) THEN SkipWS(s, i + 1) ELSE i

JSONFail == [ok |-> FALSE, val |-> [t |-> "none"], next |-> 0]
JSONNull == [t |-> "null"]

ParseJSONString(s, i) ==
  LET quotes == {j \in (i + 1)..Len(s) : s[j] = "\""}
  IN IF i > Len(s) \/ s[i] # "\"" \/ quotes = {} THEN JSONFail
     ELSE LET j == MinOf(quotes)
          IN IF \E k \in (i + 1)..(j - 1) : s[k] = "\\" THEN JSONFail
             ELSE [ok |-> TRUE, val |-> [t |-> "string", s |-> SubSeq(s, i + 1, j - 1)],
                   next |-> j + 1]

RECURSIVE DigitsEnd(_, _)
DigitsEnd(s, i) == IF i <= Len(s) /\ IsDigit(s[i]) THEN DigitsEnd(s, i + 1) ELSE i

ParseJSONNumber(s, i) ==
  LET from == IF i <= Len(s) /\ s[i] = "-" THEN i + 1 ELSE i
      to == DigitsEnd(s, from)
  IN IF to = from \/ (s[from] = "0" /\ to > from + 1) THEN JSONFail
     ELSE [ok |-> TRUE, val |-> [t |-> "number", n |-> SubSeq(s, i, to - 1)], next |-> to]

RECURSIVE ParseJSONValue(_, _), ParseJSONMembers(_, _, _), ParseJSONElems(_, _, _)
ParseJSONValue(s, i0) ==
  LET i == SkipWS(s, i0)
  IN IF i > Len(s) THEN JSONFail
     ELSE IF s[i] = "{" THEN
       (IF SkipWS(s, i + 1) <= Len(s) /\ s[SkipWS(s, i + 1)] = "}"
          THEN [ok |-> TRUE, val |-> [t |-> "object", members |-> <<>>],
                next |-> SkipWS(s, i + 1) + 1]
          ELSE ParseJSONMembers(s, i + 1, <<>>))
     ELSE IF s[i] = "[" THEN
       (IF SkipWS(s, i + 1) <= Len(s) /\ s[SkipWS(s, i + 1)] = "]"
          THEN [ok |-> TRUE, val |-> [t |-> "array", elems |-> <<>>],
                next |-> SkipWS(s, i + 1) + 1]
          ELSE ParseJSONElems(s, i + 1, <<>>))
     ELSE IF s[i] = "\"" THEN ParseJSONString(s, i)
     ELSE IF HasPrefixAt(s, i, <<"t", "r", "u", "e">>)
       THEN [ok |-> TRUE, val |-> [t |-> "bool", b |-> TRUE], next |-> i + 4]
     ELSE IF HasPrefixAt(s, i, <<"f", "a", "l", "s", "e">>)
       THEN [ok |-> TRUE, val |-> [t |-> "bool", b |-> FALSE], next |-> i + 5]
     ELSE IF HasPrefixAt(s, i, <<"n", "u", "l", "l">>)
       THEN [ok |-> TRUE, val |-> JSONNull, next |-> i + 4]
     ELSE ParseJSONNumber(s, i)

\* after '{' or ',': "key" : value, then ',' or '}'
ParseJSONMembers(s, i0, acc) ==
  LET key == ParseJSONString(s, SkipWS(s, i0))
  IN IF ~key.ok THEN JSONFail
     ELSE LET c == SkipWS(s, key.next)
          IN IF c > Len(s) \/ s[c] # ":" THEN JSONFail
             ELSE LET v == ParseJSONValue(s, c + 1)
                  IN IF ~v.ok THEN JSONFail
                     ELSE LET e == SkipWS(s, v.next)
                              got == Append(acc, [key |-> key.val.s, val |-> v.val])
                          IN IF e > Len(s) THEN JSONFail
                             ELSE IF s[e] = "," THEN ParseJSONMembers(s, e + 1, got)
                             ELSE IF s[e] = "}"
                               THEN [ok |-> TRUE, val |-> [t |-> "object", members |-> got],
                                     next |-> e + 1]
                             ELSE JSONFail

\* after '[' or ',': value, then ',' or ']'
ParseJSONElems(s, i0, acc) ==
  LET v == ParseJSONValue(s, i0)
  IN IF ~v.ok THEN JSONFail
     ELSE LET e == SkipWS(s, v.next)
              got == Append(acc, v.val)
          IN IF e > Len(s) THEN JSONFail
             ELSE IF s[e] = "," THEN ParseJSONElems(s, e + 1, got)
             ELSE IF s[e] = "]"
               THEN [ok |-> TRUE, val |-> [t |-> "array", elems |-> got], next |-> e + 1]
             ELSE JSONFail

\* one JSON value and nothing but white space after it
ParseJSON(s) ==
  LET r == ParseJSONValue(s, 1)
  IN IF r.ok /\ SkipWS(s, r.next) = Len(s) + 1
       THEN [ok |-> TRUE, val |-> r.val]
       ELSE [ok |-> FALSE, val |-> [t |-> "none"]]

UnmarshalTypeError(v, field, type) ==
  [type |-> "UnmarshalTypeError", value |-> v.t, field |-> field, gotype |-> type]
FirstError(err, new) == IF err = NoErr THEN new ELSE err

\* type replyError struct
ZeroReplyError == [Message |-> <<>>, Num |-> 0, Symbol |-> <<>>, LogID |-> <<>>]

RECURSIVE decodeReplyError(_, _, _)
decodeReplyError(members, e, err) ==
  IF members = <<>> THEN [val |-> e, err |-> err]
  ELSE LET key == ToLower(Head(members).key)
           v == Head(members).val
           rest == Tail(members)
           text(field, path) ==
             IF v.t = "string" THEN decodeReplyError(rest, [e EXCEPT ![field] = v.s], err)
             ELSE IF v.t = "null" THEN decodeReplyError(rest, e, err)
             ELSE decodeReplyError(rest, e,
                    FirstError(err, UnmarshalTypeError(v, path, "string")))
       IN IF key = <<"m", "e", "s", "s", "a", "g", "e">> THEN text("Message", "error.message")
          ELSE IF key = <<"s", "y", "m", "b", "o", "l">> THEN text("Symbol", "error.symbol")
          ELSE IF key = <<"l", "o", "g", "_", "i", "d">> THEN text("LogID", "error.log_id")
          ELSE IF key = <<"n", "u", "m">> THEN
            (IF v.t = "number" THEN decodeReplyError(rest, [e EXCEPT !.Num = Atoi(v.n).val], err)
             ELSE IF v.t = "null" THEN decodeReplyError(rest, e, err)
             ELSE decodeReplyError(rest, e,
                    FirstError(err, UnmarshalTypeError(v, "error.num", "int"))))
          ELSE decodeReplyError(rest, e, err)

\* type changeRegistrationReply struct
ZeroReply == [OK |-> FALSE, Result |-> FALSE, Error |-> <<>>, Action |-> <<>>]

RECURSIVE decodeReply(_, _, _)
decodeReply(members, reply, err) ==
  IF members = <<>> THEN [reply |-> reply, err |-> err]
  ELSE LET key == ToLower(Head(members).key)
           v == Head(members).val
           rest == Tail(members)
           flag(field, path) ==
             IF v.t = "bool" THEN decodeReply(rest, [reply EXCEPT ![field] = v.b], err)
             ELSE IF v.t = "null" THEN decodeReply(rest, reply, err)
             ELSE decodeReply(rest, reply,
                    FirstError(err, UnmarshalTypeError(v, path, "bool")))
       IN IF key = <<"o", "k">> THEN flag("OK", "ok")
          ELSE IF key = <<"r", "e", "s", "u", "l", "t">> THEN flag("Result", "result")
          ELSE IF key = <<"a", "c", "t", "i", "o", "n">> THEN
            (IF v.t = "string" THEN decodeReply(rest, [reply EXCEPT !.Action = v.s], err)
             ELSE IF v.t = "null" THEN decodeReply(rest, reply, err)
             ELSE decodeReply(rest, reply,
                    FirstError(err, UnmarshalTypeError(v, "action", "string"))))
          ELSE IF key = <<"e", "r", "r", "o", "r">> THEN
            (IF v.t = "object" THEN
               LET d == decodeReplyError(v.members,
                          IF reply.Error = <<>> THEN ZeroReplyError ELSE reply.Error[1], err)
               IN decodeReply(rest, [reply EXCEPT !.Error = <<d.val>>], d.err)
             ELSE IF v.t = "null" THEN decodeReply(rest, [reply EXCEPT !.Error = <<>>], err)
             ELSE decodeReply(rest, reply,
                    FirstError(err, UnmarshalTypeError(v, "error", "replyError"))))
          ELSE decodeReply(rest, reply, err)

\* json.Unmarshal(body, &reply) for a zero reply
jsonUnmarshalReply(body) ==
  LET doc == ParseJSON(body)
  IN IF ~doc.ok THEN [reply |-> ZeroReply, err |-> [type |-> "SyntaxError"]]
     ELSE IF doc.val.t = "object" THEN decodeReply(doc.val.members, ZeroReply, NoErr)
     ELSE IF doc.val.t = "null" THEN [reply |-> ZeroReply, err |-> NoErr]
     ELSE [reply |-> ZeroReply,
           err |-> UnmarshalTypeError(doc.val, "", "changeRegistrationReply")]

(***************************************************************************)
(* mime.ParseMediaType, as isJSONContentType uses it.  Subset: parameter   *)
(* values are tokens (no quoted strings).                                  *)
(***************************************************************************)
IsTokenChar(c) ==
  c \notin {" ", "\t", "\n", "\r", "/", ";", "=", "\"", ",", "(", ")", "<", ">", "@",
            ":", "\\", "[", "]", "?"}
IsToken(s) == s # <<>> /\ \A i \in 1..Len(s) : IsTokenChar(s[i])

\* strings.Split(s, sep) for a one-character separator: empty pieces kept
RECURSIVE SplitFrom(_, _, _, _)
SplitFrom(s, i, cur, sep) ==
  IF i > Len(s) THEN <<cur>>
  ELSE IF s[i] = sep THEN <<cur>> \o SplitFrom(s, i + 1, <<>>, sep)
  ELSE SplitFrom(s, i + 1, Append(cur, s[i]), sep)
Split(s, sep) == SplitFrom(s, 1, <<>>, sep)

\* checkMediaTypeDisposition: token, or token "/" token
ValidMediaType(s) ==
  LET parts == Split(s, "/")
  IN /\ Len(parts) \in {1, 2}
     /\ \A k \in 1..Len(parts) : IsToken(parts[k])

\* consumeMediaParam: ws ";" ws token "=" token
ParamName(seg) == ToLower(SplitN2(TrimSpace(seg), "=")[1])
ValidParam(seg) ==
  LET kv == SplitN2(TrimSpace(seg), "=")
  IN Len(kv) = 2 /\ IsToken(kv[1]) /\ IsToken(kv[2])
\* the pieces after the first ';': each a parameter with a name of its own;
\* a lone trailing ';' is ignored
ValidParams(segs) ==
  /\ \A k \in 1..Len(segs) :
       \/ ValidParam(segs[k])
       \/ k = Len(segs) /\ TrimSpace(segs[k]) = <<>>
  /\ \A j, k \in 1..Len(segs) :
       (j < k /\ ValidParam(segs[j]) /\ ValidParam(segs[k]))
         => ParamName(segs[j]) # ParamName(segs[k])

ParseMediaType(v) ==
  LET pieces == Split(v, ";")
      mediatype == TrimSpace(ToLower(pieces[1]))
  IN IF ~ValidMediaType(mediatype) THEN [ok |-> FALSE, mediaType |-> <<>>]
     ELSE IF ~ValidParams(Tail(pieces)) THEN [ok |-> FALSE, mediaType |-> mediatype]
     ELSE [ok |-> TRUE, mediaType |-> mediatype]

\* application/json
ApplicationJSON ==
  <<"a", "p", "p", "l", "i", "c", "a", "t", "i", "o", "n", "/", "j", "s", "o", "n">>
\* text/json
TextJSON ==
  <<"t", "e", "x", "t", "/", "j", "s", "o", "n">>
\* application/problem+json
ApplicationProblemJSON ==
  <<"a", "p", "p", "l", "i", "c", "a", "t", "i", "o", "n", "/", "p", "r", "o", "b",
    "l", "e", "m", "+", "j", "s", "o", "n">>

isJSONContentType(contentType) ==
  LET m == ParseMediaType(contentType)
  IN IF ~m.ok THEN FALSE
     ELSE m.mediaType \in {ApplicationJSON, TextJSON, ApplicationProblemJSON}

(***************************************************************************)
(* The registration client.                                                *)
(***************************************************************************)
\* /ej/api/v1/master/change-registration
changeRegistrationPath ==
  <<"/", "e", "j", "/", "a", "p", "i", "/", "v", "1", "/", "m", "a", "s", "t", "e",
    "r", "/", "c", "h", "a", "n", "g", "e", "-", "r", "e", "g", "i", "s", "t", "r",
    "a", "t", "i", "o", "n">>

actionRegister == <<"r", "e", "g", "i", "s", "t", "e", "r">>
actionUnregister == <<"u", "n", "r", "e", "g", "i", "s", "t", "e", "r">>

maxPreview == 200
Ellipsis == <<".", ".", ".">>

\* strconv.Itoa
RECURSIVE ItoaNat(_)
ItoaNat(n) == IF n < 10 THEN <<Digits[n + 1]>> ELSE Append(ItoaNat(n \div 10), Digits[(n % 10) + 1])
Itoa(n) == IF n < 0 THEN <<"-">> \o ItoaNat(0 - n) ELSE ItoaNat(n)

\* the url.Values of lines 211-231; an absent field is the empty sequence
registrationForm(contestID, user, act) ==
  [other_user_id |-> IF user.ID # <<>> THEN <<Itoa(user.ID[1])>> ELSE <<>>,
   other_user_login |-> IF user.Login # <<>> THEN <<user.Login>> ELSE <<>>,
   contest_id |-> Itoa(contestID),
   op |-> IF act = actionRegister THEN "upsert" ELSE "delete",
   status |-> IF act = actionRegister THEN <<"ok">> ELSE <<>>,
   name |-> IF act = actionRegister THEN <<user.Name>> ELSE <<>>,
   ignore |-> "true"]

\* the first maxPreview characters and "..." of a longer text
Preview(text) ==
  IF Len(text) > maxPreview THEN SubSeq(text, 1, maxPreview) \o Ellipsis ELSE text

\* lines 276-283: the reply acknowledges the change
acknowledgedEither(reply) == reply.OK \/ reply.Result
acknowledged(reply) == ~(~reply.OK \/ ~reply.Result)

\* lines 277-280
nackError(reply) ==
  IF reply.Error # <<>>
    THEN [kind |-> "server error", message |-> reply.Error[1].Message,
          num |-> reply.Error[1].Num, symbol |-> reply.Error[1].Symbol,
          log |-> reply.Error[1].LogID]
    ELSE [kind |-> "registration change was not acknowledged"]

\* lines 246-283: what changeRegistration returns for the answer resp of the
\* server (resp.transport: "ok", or why client.Do or io.ReadAll failed)
responseError(resp) ==
  IF resp.transport \in {"refused", "timeout"}
    THEN [kind |-> "sending request", cause |-> resp.transport]
  ELSE IF resp.transport = "reset"
    THEN [kind |-> "reading response", cause |-> resp.transport]
  ELSE IF resp.status < 200 \/ resp.status >= 300
    THEN [kind |-> "unexpected status", status |-> resp.status,
          body |-> resp.body]
  ELSE IF resp.contentType # <<>> /\ ~isJSONContentType(resp.contentType)
    THEN [kind |-> "unexpected response content type", contentType |-> resp.contentType,
          status |-> resp.status, preview |-> Preview(resp.body)]
  ELSE LET d == jsonUnmarshalReply(resp.body)
       IN IF d.err # NoErr THEN [kind |-> "decoding response", cause |-> d.err]
          ELSE IF ~acknowledged(d.reply) THEN nackError(d.reply)
          ELSE NoErr

\* changeRegistration(client, baseURL, token, contestID, user, action,
\* timeout): the request it sends, if any, and the error it returns.
\* url.Parse accepts every base URL of the model, so http.NewRequest
\* succeeds.
changeRegistration(base, tok, contestID, user, act, resp) ==
  IF act \notin {actionRegister, actionUnregister}
    THEN [sent |-> <<>>, err |-> [kind |-> "unsupported action", action |-> act]]
    ELSE [sent |-> <<[method |-> "POST", url |-> base \o changeRegistrationPath,
                      authorization |-> tok,
                      form |-> registrationForm(contestID, user, act)]>>,
          err |-> responseError(resp)]

\* the character strings, taken from the server's answer, that the message
\* of an error embeds (err.Error() without its fixed words)
ErrorData(err) ==
  IF err.kind = "unexpected status" THEN <<Itoa(err.status), err.body>>
  ELSE IF err.kind = "unexpected response content type"
    THEN <<err.contentType, Itoa(err.status), err.preview>>
  ELSE IF err.kind = "server error"
    THEN <<err.message, Itoa(err.num), err.symbol, err.log>>
  ELSE <<>>

(***************************************************************************)
(* main: flags, configuration, the driver loop.                            *)
(***************************************************************************)
parseAction(raw) ==
  LET a == ToLower(TrimSpace(raw))
  IN IF a = actionRegister THEN [action |-> actionRegister, err |-> NoErr]
     ELSE IF a = actionUnregister THEN [action |-> actionUnregister, err |-> NoErr]
     ELSE [action |-> <<>>, err |-> [kind |-> "unsupported action", action |-> raw]]

\* strings.TrimSuffix(s, suffix)
TrimSuffix(s, suffix) ==
  IF Len(s) >= Len(suffix) /\ SubSeq(s, Len(s) - Len(suffix) + 1, Len(s)) = suffix
    THEN SubSeq(s, 1, Len(s) - Len(suffix))
    ELSE s

\* type config struct, decoded with DisallowUnknownFields
RECURSIVE decodeConfig(_, _, _)
decodeConfig(members, conf, err) ==
  IF members = <<>> THEN [cfg |-> conf, err |-> err]
  ELSE LET v == Head(members).val
       IN IF ToLower(Head(members).key) = <<"t", "o", "k", "e", "n">>
            THEN (IF v.t = "string"
                    THEN decodeConfig(Tail(members), [conf EXCEPT !.Token = v.s], err)
                  ELSE IF v.t = "null" THEN decodeConfig(Tail(members), conf, err)
                  ELSE decodeConfig(Tail(members), conf,
                         FirstError(err, UnmarshalTypeError(v, "token", "string"))))
            ELSE decodeConfig(Tail(members), conf,
                   FirstError(err, [type |-> "unknown field"]))

ZeroConfig == [Token |-> <<>>]

\* loadConfig(path), for the file found at path (file.exists, file.content)
loadConfig(path, file) ==
  IF path = <<>> THEN [cfg |-> ZeroConfig, err |-> NoErr]
  ELSE IF ~file.exists
    THEN [cfg |-> ZeroConfig, err |-> [kind |-> "opening config file"]]
  ELSE IF SkipWS(file.content, 1) > Len(file.content)
    THEN [cfg |-> ZeroConfig, err |-> [kind |-> "config file is empty"]]
  ELSE LET first == ParseJSONValue(file.content, 1)
           d == IF first.val.t = "object" THEN decodeConfig(first.val.members, ZeroConfig, NoErr)
                ELSE IF first.val.t = "null" THEN [cfg |-> ZeroConfig, err |-> NoErr]
                ELSE [cfg |-> ZeroConfig,
                      err |-> UnmarshalTypeError(first.val, "", "config")]
       IN IF ~first.ok
            THEN [cfg |-> ZeroConfig,
                  err |-> [kind |-> "decoding config", cause |-> [type |-> "SyntaxError"]]]
          ELSE IF d.err # NoErr
            THEN [cfg |-> ZeroConfig, err |-> [kind |-> "decoding config", cause |-> d.err]]
          ELSE IF SkipWS(file.content, first.next) <= Len(file.content)
            THEN [cfg |-> ZeroConfig,
                  err |-> [kind |-> "config file holds more than one JSON value"]]
          ELSE [cfg |-> d.cfg, err |-> NoErr]

\* lines 94-97: the -token flag, else the token of the config file
resolveTokenUntrimmed(tokenArg, conf) == IF tokenArg = <<>> THEN conf.Token ELSE tokenArg
resolveToken(tokenArg, conf) ==
  IF TrimSpace(tokenArg) = <<>> THEN TrimSpace(conf.Token) ELSE TrimSpace(tokenArg)

userIdentifier(u) ==
  IF u.Login # <<>> /\ u.ID # <<>>
    THEN <<"l", "o", "g", "i", "n", "=">> \o u.Login \o <<" ", "(", "i", "d", "=">>
           \o Itoa(u.ID[1]) \o <<")">>
  ELSE IF u.ID # <<>> THEN <<"i", "d", "=">> \o Itoa(u.ID[1])
  ELSE IF u.Login # <<>> THEN <<"l", "o", "g", "i", "n", "=">> \o u.Login
  ELSE <<"<", "u", "n", "k", "n", "o", "w", "n", ">">>

actionVerb(act) ==
  IF act = actionRegister THEN "Registered"
  ELSE IF act = actionUnregister THEN "Unregistered"
  ELSE "other"

\* lines 119-120: the pair after <<c, u>> in "for contests { for users {"
nextPairNextContest(c, u, nUsers) == <<c + 1, 1>>
nextPair(c, u, nUsers) == IF u < nUsers THEN <<c, u + 1>> ELSE <<c + 1, 1>>

\* lines 129-135
exitStatusZero(fails) == 0
exitStatus(fails) == IF Len(fails) > 0 THEN 1 ELSE 0

(***************************************************************************)
(* The state of a run of main that has not started; the specifications     *)
(* that exercise one function alone keep main's variables at these values. *)
(***************************************************************************)
NoFlags == [users |-> <<>>, contests |-> <<>>, action |-> <<>>, config |-> <<>>,
            token |-> <<>>, baseURL |-> <<>>]
NoFile == [exists |-> FALSE, content |-> <<>>]
NoCall == [fn |-> "main"]
NotDone == [done |-> FALSE]

MainUnused ==
  /\ pc = "none" /\ flags = NoFlags /\ configFile = NoFile
  /\ action = <<>> /\ users = <<>> /\ contests = <<>> /\ cfg = ZeroConfig
  /\ token = <<>> /\ baseURL = <<>> /\ ci = 0 /\ ui = 0
  /\ calls = <<>> /\ failures = <<>> /\ logged = <<>> /\ exitCode = -1

(***************************************************************************)
(* SpecParse: parseUsers and parseContestIDs applied to every string over  *)
(* a small alphabet, of at most MaxLen (MaxCLen) characters: every such    *)
(* string is a head of at most half the length followed by a rest.         *)
(***************************************************************************)
UserAlphabet == {"1", "-", ":", ";", ",", " "}
ContestAlphabet == {"1", "-", ";", ",", " ", "\t"}

InitParse ==
  /\ MainUnused
  /\ ret = NotDone
  /\ \/ \E head \in StringsUpTo(UserAlphabet, MaxLen \div 2),
            rest \in StringsUpTo(UserAlphabet, MaxLen - (MaxLen \div 2)) :
          call = [fn |-> "parseUsers", raw |-> head \o rest]
     \/ \E head \in StringsUpTo(ContestAlphabet, MaxCLen \div 2),
            rest \in StringsUpTo(ContestAlphabet, MaxCLen - (MaxCLen \div 2)) :
          call = [fn |-> "parseContestIDs", raw |-> head \o rest]

CallParseUsers ==
  /\ call.fn = "parseUsers" /\ ~ret.done
  /\ ret' = [done |-> TRUE, res |-> parseUsers(call.raw)]
  /\ UNCHANGED <<call, mainVars>>

CallParseContestIDs ==
  /\ call.fn = "parseContestIDs" /\ ~ret.done
  /\ ret' = [done |-> TRUE, res |-> parseContestIDs(call.raw)]
  /\ UNCHANGED <<call, mainVars>>

NextParse == CallParseUsers \/ CallParseContestIDs
SpecParse == InitParse /\ [][NextParse]_vars

(***************************************************************************)
(* What the list syntax means, stated on the positions of the raw string   *)
(* (independently of the scanning the parsers do).                         *)
(***************************************************************************)
\* the maximal stretches <<a, b>> of raw that hold no character of seps
Stretches(raw, seps) ==
  {sp \in (1..Len(raw)) \X (1..Len(raw)) :
     /\ sp[1] <= sp[2]
     /\ \A i \in sp[1]..sp[2] : raw[i] \notin seps
     /\ sp[1] = 1 \/ raw[sp[1] - 1] \in seps
     /\ sp[2] = Len(raw) \/ raw[sp[2] + 1] \in seps}
NonBlank(raw, a, b) == {i \in a..b : raw[i] \notin {" ", "\t", "\n", "\r"}}
\* raw[a..b] without the blanks at its two ends
Stripped(raw, a, b) ==
  LET ns == NonBlank(raw, a, b)
  IN IF ns = {} THEN <<>>
     ELSE [k \in 1..(MaxOf(ns) - MinOf(ns) + 1) |-> raw[MinOf(ns) + k - 1]]
TokenSpans(raw, seps) == {sp \in Stretches(raw, seps) : NonBlank(raw, sp[1], sp[2]) # {}}
\* the position of a token in the list: 1 + the number of tokens before it
Rank(spans, sp) == 1 + Cardinality({o \in spans : o[1] < sp[1]})
Colons(raw, sp) == {i \in sp[1]..sp[2] : raw[i] = ":"}

IsInteger(s) ==
  /\ s # <<>>
  /\ LET from == IF s[1] \in {"+", "-"} THEN 2 ELSE 1
     IN /\ from <= Len(s)
        /\ \A i \in from..Len(s) : s[i] \in {"0", "1", "2", "3", "4", "5", "6", "7", "8", "9"}
RECURSIVE Horner(_, _, _)
Horner(s, i, acc) ==
  IF i > Len(s) THEN acc ELSE Horner(s, i + 1, acc * 10 + DigitVal(s[i]))
IntegerValue(s) ==
  IF s[1] = "-" THEN 0 - Horner(s, 2, 0)
  ELSE IF s[1] = "+" THEN Horner(s, 2, 0) ELSE Horner(s, 1, 0)

\* a token with no ':', or with nothing but blanks before or after its
\* first ':'
BadUserToken(raw, sp) ==
  \/ Colons(raw, sp) = {}
  \/ Stripped(raw, sp[1], MinOf(Colons(raw, sp)) - 1) = <<>>
  \/ Stripped(raw, MinOf(Colons(raw, sp)) + 1, sp[2]) = <<>>

ExpectedUser(raw, sp) ==
  LET p == MinOf(Colons(raw, sp))
      id == Stripped(raw, sp[1], p - 1)
  IN [ID |-> IF IsInteger(id) THEN <<IntegerValue(id)>> ELSE <<>>,
      Login |-> id,
      Name |-> Stripped(raw, p + 1, sp[2])]

ParseUsersDone == call.fn = "parseUsers" /\ ret.done

\* C9 (as amended): parseUsers returns an error when the list is empty after
\* splitting on ';' / ',' and dropping blank tokens, or when some token
\* contains no ':', or has an empty identifier before or an empty name after
\* its FIRST ':' (after trimming); otherwise it returns one record per token
\* in input order, Login the trimmed text before the first ':', Name the
\* trimmed text after it (further ':' included), and ID present, equal to
\* the integer, exactly when the identifier is a base-10 integer.
C9_ParseUsers ==
  ParseUsersDone =>
    LET raw == call.raw
        spans == TokenSpans(raw, {";", ","})
        r == ret.res
    IN IF spans = {} \/ \E sp \in spans : BadUserToken(raw, sp)
         THEN r.err # NoErr
         ELSE /\ r.err = NoErr
              /\ Len(r.users) = Cardinality(spans)
              /\ \A sp \in spans : r.users[Rank(spans, sp)] = ExpectedUser(raw, sp)

\* C9 witness: two records in input order, the first with a numeric
\* identifier (ID present), the second with a login only (ID absent).
C9_Witness ==
  /\ ParseUsersDone
  /\ ret.res.err = NoErr
  /\ Len(ret.res.users) = 2
  /\ ret.res.users[1].ID = <<1>>
  /\ ret.res.users[2].ID = <<>>

\* C9 (as claimed): a token that does not contain exactly one ':' is an
\* error.
C9_ExactlyOneColon ==
  ParseUsersDone =>
    ((\E sp \in TokenSpans(call.raw, {";", ","}) :
         Cardinality(Colons(call.raw, sp)) # 1)
       => ret.res.err # NoErr)

ParseContestIDsDone == call.fn = "parseContestIDs" /\ ret.done

\* integer tokens separated by single tabs, blanks allowed around a token,
\* one trailing tab allowed
TabSeparatedIntegers(raw) ==
  /\ raw # <<>>
  /\ raw[1] # "\t"
  /\ \A i \in 1..(Len(raw) - 1) : ~(raw[i] = "\t" /\ raw[i + 1] = "\t")
  /\ \A sp \in Stretches(raw, {"\t"}) : IsInteger(Stripped(raw, sp[1], sp[2]))

\* C10: parseContestIDs accepts tabs as list separators: a list of integer
\* tokens separated by tabs parses without error to the integers in input
\* order.
C10_TabSeparated ==
  (ParseContestIDsDone /\ TabSeparatedIntegers(call.raw)) =>
    LET raw == call.raw
        spans == Stretches(raw, {"\t"})
        r == ret.res
    IN /\ r.err = NoErr
       /\ Len(r.ids) = Cardinality(spans)
       /\ \A sp \in spans :
            r.ids[Rank(spans, sp)] = IntegerValue(Stripped(raw, sp[1], sp[2]))

(***************************************************************************)
(* SpecHTTP: changeRegistration against every answer of a small set.       *)
(***************************************************************************)
MaxExtra == 2

\* {"ok":true,"result":true,"action":"upsert"}
BodyAck ==
  <<"{", "\"", "o", "k", "\"", ":", "t", "r", "u", "e", ",", "\"", "r", "e", "s", "u",
    "l", "t", "\"", ":", "t", "r", "u", "e", ",", "\"", "a", "c", "t", "i", "o", "n",
    "\"", ":", "\"", "u", "p", "s", "e", "r", "t", "\"", "}">>
\* {"ok": false, "error": {"message": "User is blocked", "num": 13, "symbol": "USER_BLOCKED", "log_id": "log-1"}}
BodyUserBlocked ==
  <<"{", "\"", "o", "k", "\"", ":", " ", "f", "a", "l", "s", "e", ",", " ", "\"", "e",
    "r", "r", "o", "r", "\"", ":", " ", "{", "\"", "m", "e", "s", "s", "a", "g", "e",
    "\"", ":", " ", "\"", "U", "s", "e", "r", " ", "i", "s", " ", "b", "l", "o", "c",
    "k", "e", "d", "\"", ",", " ", "\"", "n", "u", "m", "\"", ":", " ", "1", "3", ",",
    " ", "\"", "s", "y", "m", "b", "o", "l", "\"", ":", " ", "\"", "U", "S", "E", "R",
    "_", "B", "L", "O", "C", "K", "E", "D", "\"", ",", " ", "\"", "l", "o", "g", "_",
    "i", "d", "\"", ":", " ", "\"", "l", "o", "g", "-", "1", "\"", "}", "}">>
\* {"ok": false, "result": "contest is closed"}
BodyContestClosed ==
  <<"{", "\"", "o", "k", "\"", ":", " ", "f", "a", "l", "s", "e", ",", " ", "\"", "r",
    "e", "s", "u", "l", "t", "\"", ":", " ", "\"", "c", "o", "n", "t", "e", "s", "t",
    " ", "i", "s", " ", "c", "l", "o", "s", "e", "d", "\"", "}">>
\* not json
BodyNotJSON ==
  <<"n", "o", "t", " ", "j", "s", "o", "n">>
\* {"ok":true,"result":false}
BodyResultFalse ==
  <<"{", "\"", "o", "k", "\"", ":", "t", "r", "u", "e", ",", "\"", "r", "e", "s", "u",
    "l", "t", "\"", ":", "f", "a", "l", "s", "e", "}">>
\* {"ok":true}
BodyResultMissing ==
  <<"{", "\"", "o", "k", "\"", ":", "t", "r", "u", "e", "}">>
\* {"OK":true,"Result":true,"error":{"message":"late"}}
BodyAckWithError ==
  <<"{", "\"", "O", "K", "\"", ":", "t", "r", "u", "e", ",", "\"", "R", "e", "s", "u",
    "l", "t", "\"", ":", "t", "r", "u", "e", ",", "\"", "e", "r", "r", "o", "r", "\"",
    ":", "{", "\"", "m", "e", "s", "s", "a", "g", "e", "\"", ":", "\"", "l", "a", "t",
    "e", "\"", "}", "}">>
\* null
BodyNull ==
  <<"n", "u", "l", "l">>
\* [true]
BodyArray ==
  <<"[", "t", "r", "u", "e", "]">>
\* <!DOCTYPE html><html><body><style>body{margin:0;}</style><pre>{"ok":true,"result":true,"action":"upsert"}</pre></body></html>
BodyHTMLWithJSON ==
  <<"<", "!", "D", "O", "C", "T", "Y", "P", "E", " ", "h", "t", "m", "l", ">", "<",
    "h", "t", "m", "l", ">", "<", "b", "o", "d", "y", ">", "<", "s", "t", "y", "l",
    "e", ">", "b", "o", "d", "y", "{", "m", "a", "r", "g", "i", "n", ":", "0", ";",
    "}", "<", "/", "s", "t", "y", "l", "e", ">", "<", "p", "r", "e", ">", "{", "\"",
    "o", "k", "\"", ":", "t", "r", "u", "e", ",", "\"", "r", "e", "s", "u", "l", "t",
    "\"", ":", "t", "r", "u", "e", ",", "\"", "a", "c", "t", "i", "o", "n", "\"", ":",
    "\"", "u", "p", "s", "e", "r", "t", "\"", "}", "<", "/", "p", "r", "e", ">", "<",
    "/", "b", "o", "d", "y", ">", "<", "/", "h", "t", "m", "l", ">">>
\* <pre>{"ok":false,"error":{"message":"no such user"}}</pre>
BodyHTMLWithNack ==
  <<"<", "p", "r", "e", ">", "{", "\"", "o", "k", "\"", ":", "f", "a", "l", "s", "e",
    ",", "\"", "e", "r", "r", "o", "r", "\"", ":", "{", "\"", "m", "e", "s", "s", "a",
    "g", "e", "\"", ":", "\"", "n", "o", " ", "s", "u", "c", "h", " ", "u", "s", "e",
    "r", "\"", "}", "}", "<", "/", "p", "r", "e", ">">>
\* <html><body>No JSON here</body></html>
BodyHTMLWithoutJSON ==
  <<"<", "h", "t", "m", "l", ">", "<", "b", "o", "d", "y", ">", "N", "o", " ", "J",
    "S", "O", "N", " ", "h", "e", "r", "e", "<", "/", "b", "o", "d", "y", ">", "<",
    "/", "h", "t", "m", "l", ">">>

Filler(n) == [i \in 1..n |-> "x"]
FillerLengths == {n \in 0..(maxPreview + MaxExtra) : n <= MaxExtra \/ n >= maxPreview - MaxExtra}

Bodies ==
  {<<>>, BodyAck, BodyUserBlocked, BodyContestClosed, BodyNotJSON, BodyResultFalse,
   BodyResultMissing, BodyAckWithError, BodyNull, BodyArray, BodyHTMLWithJSON,
   BodyHTMLWithNack, BodyHTMLWithoutJSON}
    \cup {Filler(n) : n \in FillerLengths}

\* application/json; charset=utf-8
CTJSONCharset ==
  <<"a", "p", "p", "l", "i", "c", "a", "t", "i", "o", "n", "/", "j", "s", "o", "n",
    ";", " ", "c", "h", "a", "r", "s", "e", "t", "=", "u", "t", "f", "-", "8">>
\* Application/JSON
CTJSONUpper ==
  <<"A", "p", "p", "l", "i", "c", "a", "t", "i", "o", "n", "/", "J", "S", "O", "N">>
\* application/json; charset
CTJSONBadParam ==
  <<"a", "p", "p", "l", "i", "c", "a", "t", "i", "o", "n", "/", "j", "s", "o", "n",
    ";", " ", "c", "h", "a", "r", "s", "e", "t">>
\* text/html
CTHTML ==
  <<"t", "e", "x", "t", "/", "h", "t", "m", "l">>
\* text/html; charset=utf-8
CTHTMLCharset ==
  <<"t", "e", "x", "t", "/", "h", "t", "m", "l", ";", " ", "c", "h", "a", "r", "s",
    "e", "t", "=", "u", "t", "f", "-", "8">>
\* text/plain;
CTPlain ==
  <<"t", "e", "x", "t", "/", "p", "l", "a", "i", "n", ";">>

ContentTypes ==
  {<<>>, ApplicationJSON, TextJSON, ApplicationProblemJSON, CTJSONCharset, CTJSONUpper,
   CTJSONBadParam, CTHTML, CTHTMLCharset, CTPlain}

StatusCodes == {199, 200, 204, 299, 300, 404, 500}

Responses ==
  {[transport |-> t, status |-> 0, contentType |-> <<>>, body |-> <<>>] :
     t \in {"refused", "timeout", "reset"}}
    \cup [transport : {"ok"}, status : StatusCodes, contentType : ContentTypes,
          body : Bodies]

SampleUsers ==
  {[ID |-> <<17>>, Login |-> <<"1", "7">>, Name |-> <<"A", "n", "n">>],
   [ID |-> <<>>, Login |-> <<"b", "o", "b">>, Name |-> <<"B", "o", "b">>]}
SampleBaseURL == <<"h", "t", "t", "p", ":", "/", "/", "h">>
SampleToken == <<"T">>

InitHTTP ==
  /\ MainUnused
  /\ ret = NotDone
  /\ \E u \in SampleUsers, a \in {actionRegister, actionUnregister, <<"r", "e", "g">>},
        resp \in Responses :
       call = [fn |-> "changeRegistration", baseURL |-> SampleBaseURL,
               token |-> SampleToken, contestID |-> 1, user |-> u, action |-> a,
               resp |-> resp]

CallChangeRegistration ==
  /\ call.fn = "changeRegistration" /\ ~ret.done
  /\ LET r == changeRegistration(call.baseURL, call.token, call.contestID, call.user,
                                 call.action, call.resp)
     IN ret' = [done |-> TRUE, err |-> r.err, sent |-> r.sent]
  /\ UNCHANGED <<call, mainVars>>

NextHTTP == CallChangeRegistration
SpecHTTP == InitHTTP /\ [][NextHTTP]_vars

\* changeRegistration has returned after receiving a whole response
Answered == call.fn = "changeRegistration" /\ ret.done /\ ret.sent # <<>>
                /\ call.resp.transport = "ok"
Is2xx(status) == status >= 200 /\ status <= 299

\* the response was decoded into a reply record
Decoded ==
  /\ Answered /\ Is2xx(call.resp.status)
  /\ ret.err.kind \notin {"unexpected response content type", "decoding response"}

\* C4: for a 2xx response that decodes into a reply record, changeRegistration
\* succeeds if and only if OK and Result are both true; otherwise its error is
\* built from the reply's error object (Message, Num, Symbol, LogID) when
\* there is one, and is the generic "not acknowledged" error when there is
\* none.
C4_Acknowledgment ==
  Decoded =>
    LET reply == jsonUnmarshalReply(call.resp.body).reply
    IN /\ (ret.err = NoErr) <=> (reply.OK /\ reply.Result)
       /\ (ret.err # NoErr /\ reply.Error # <<>>) =>
            /\ ret.err.kind = "server error"
            /\ ret.err.message = reply.Error[1].Message
            /\ ret.err.num = reply.Error[1].Num
            /\ ret.err.symbol = reply.Error[1].Symbol
            /\ ret.err.log = reply.Error[1].LogID
       /\ (ret.err # NoErr /\ reply.Error = <<>>) =>
            ret.err = [kind |-> "registration change was not acknowledged"]

\* C4 witness: the server refused with an error object (message "User is
\* blocked", num 13), and changeRegistration reports it.
C4_Witness ==
  /\ Decoded
  /\ call.resp.body = BodyUserBlocked
  /\ ret.err.kind = "server error"
  /\ ret.err.num = 13
  /\ ret.err.message = <<"U", "s", "e", "r", " ", "i", "s", " ", "b", "l", "o", "c", "k", "e", "d">>

\* s occurs in one of the strings of data
Contains(data, s) ==
  \E d \in 1..Len(data) : \E i \in 0..(Len(data[d]) - Len(s)) :
    SubSeq(data[d], i + 1, i + Len(s)) = s

\* the values of the members of a JSON object named key
MemberValues(doc, key) ==
  {doc.members[k].val : k \in {j \in 1..Len(doc.members) : doc.members[j].key = key}}

\* C6: a 2xx JSON answer with ok false, no error object and a string as
\* result makes changeRegistration fail with a message that contains that
\* string.
C6_ResultMessage ==
  (/\ Answered /\ Is2xx(call.resp.status)
   /\ call.resp.contentType \in {<<>>, ApplicationJSON}
   /\ ParseJSON(call.resp.body).ok
   /\ ParseJSON(call.resp.body).val.t = "object") =>
    LET doc == ParseJSON(call.resp.body).val
    IN \A r \in MemberValues(doc, <<"r", "e", "s", "u", "l", "t">>) :
         (/\ r.t = "string"
          /\ MemberValues(doc, <<"o", "k">>) = {[t |-> "bool", b |-> FALSE]}
          /\ MemberValues(doc, <<"e", "r", "r", "o", "r">>) = {})
           => ret.err # NoErr /\ Contains(ErrorData(ret.err), r.s)

\* C7: a non-2xx answer makes changeRegistration fail with the status and an
\* excerpt of the body: the body itself when it has at most 200 characters,
\* else its first 200 characters followed by "...".
C7_StatusExcerpt ==
  (Answered /\ ~Is2xx(call.resp.status)) =>
    /\ ret.err.kind = "unexpected status"
    /\ ret.err.status = call.resp.status
    /\ IF Len(call.resp.body) <= 200
         THEN ret.err.body = call.resp.body
         ELSE /\ Len(ret.err.body) = 203
              /\ SubSeq(ret.err.body, 1, 200) = SubSeq(call.resp.body, 1, 200)
              /\ SubSeq(ret.err.body, 201, 203) = <<".", ".", ".">>

(***************************************************************************)
(* The embedded-JSON scanner, extractJSONFromText.  Its code is not part   *)
(* of main.go (only its tests are in the repository); it is modelled from  *)
(* section 4.4 of the specification: a scanner with a tag-aware skip mode  *)
(* that returns the first balanced {...} or [...] fragment.                *)
(***************************************************************************)
OpenStyle == <<"<", "s", "t", "y", "l", "e">>
CloseStyle == <<"<", "/", "s", "t", "y", "l", "e", ">">>
OpenScript == <<"<", "s", "c", "r", "i", "p", "t">>
CloseScript == <<"<", "/", "s", "c", "r", "i", "p", "t", ">">>

Closer(c) == IF c = "{" THEN "}" ELSE "]"

\* the position after the first closing tag at or after i (the end of the
\* text when the region is never closed)
SkipPast(text, i, closing) ==
  LET low == ToLower(text)
      at == {j \in i..Len(text) : HasPrefixAt(low, j, closing)}
  IN IF at = {} THEN Len(text) + 1 ELSE MinOf(at) + Len(closing)

\* the position where the brackets opened from j on are all closed, 0 when
\* a bracket is closed by the wrong kind or the text ends first
RECURSIVE BalancedEnd(_, _, _)
BalancedEnd(text, j, stack) ==
  IF j > Len(text) THEN 0
  ELSE IF text[j] \in {"{", "["} THEN BalancedEnd(text, j + 1, <<Closer(text[j])>> \o stack)
  ELSE IF text[j] \in {"}", "]"} THEN
    (IF stack = <<>> \/ Head(stack) # text[j] THEN 0
     ELSE IF Tail(stack) = <<>> THEN j
     ELSE BalancedEnd(text, j + 1, Tail(stack)))
  ELSE BalancedEnd(text, j + 1, stack)

NotFound == [ok |-> FALSE, fragment |-> <<>>]

RECURSIVE scanIgnoringTags(_, _)
scanIgnoringTags(text, i) ==
  IF i > Len(text) THEN NotFound
  ELSE IF text[i] \in {"{", "["} /\ BalancedEnd(text, i, <<>>) > 0
    THEN [ok |-> TRUE, fragment |-> SubSeq(text, i, BalancedEnd(text, i, <<>>))]
  ELSE scanIgnoringTags(text, i + 1)

RECURSIVE scanFrom(_, _)
scanFrom(text, i) ==
  IF i > Len(text) THEN NotFound
  ELSE IF HasPrefixAt(ToLower(text), i, OpenStyle)
    THEN scanFrom(text, SkipPast(text, i, CloseStyle))
  ELSE IF HasPrefixAt(ToLower(text), i, OpenScript)
    THEN scanFrom(text, SkipPast(text, i, CloseScript))
  ELSE IF text[i] \in {"{", "["} /\ BalancedEnd(text, i, <<>>) > 0
    THEN [ok |-> TRUE, fragment |-> SubSeq(text, i, BalancedEnd(text, i, <<>>))]
  ELSE scanFrom(text, i + 1)

extractJSONFromTextIgnoringTags(text) == scanIgnoringTags(text, 1)
extractJSONFromText(text) == scanFrom(text, 1)

(***************************************************************************)
(* SpecScan: the scanner on every text of at most MaxChunks chunks.        *)
(***************************************************************************)
MaxChunks == 4

Chunks ==
  {<<"<", "s", "t", "y", "l", "e", ">">>, CloseStyle,
   <<"<", "S", "c", "r", "i", "p", "t", ">">>, CloseScript,
   <<"{">>, <<"}">>, <<"[">>, <<"]">>, <<"{", "a", "}">>}

RECURSIVE Concat(_)
Concat(seqs) == IF seqs = <<>> THEN <<>> ELSE Head(seqs) \o Concat(Tail(seqs))

InitScan ==
  /\ MainUnused
  /\ ret = NotDone
  /\ \E cs \in StringsUpTo(Chunks, MaxChunks) :
       call = [fn |-> "extractJSONFromText", text |-> Concat(cs)]

CallExtractJSONFromText ==
  /\ call.fn = "extractJSONFromText" /\ ~ret.done
  /\ ret' = [done |-> TRUE, res |-> extractJSONFromText(call.text)]
  /\ UNCHANGED <<call, mainVars>>

NextScan == CallExtractJSONFromText
SpecScan == InitScan /\ [][NextScan]_vars

(***************************************************************************)
(* What "the first balanced fragment outside <style> and <script>" means,  *)
(* stated on the text.                                                     *)
(***************************************************************************)
\* the brackets of a text, in order
RECURSIVE Brackets(_)
Brackets(t) ==
  IF t = <<>> THEN <<>>
  ELSE (IF Head(t) \in {"{", "}", "[", "]"} THEN <<Head(t)>> ELSE <<>>) \o Brackets(Tail(t))
\* a sequence of brackets is balanced when deleting adjacent pairs {} and []
\* leaves nothing
RECURSIVE Reduces(_)
Reduces(b) ==
  IF b = <<>> THEN TRUE
  ELSE LET pairs == {k \in 1..(Len(b) - 1) :
                       <<b[k], b[k + 1]>> \in {<<"{", "}">>, <<"[", "]">>}}
       IN IF pairs = {} THEN FALSE
          ELSE Reduces(SubSeq(b, 1, MinOf(pairs) - 1) \o SubSeq(b, MinOf(pairs) + 2, Len(b)))
\* the ends b of the balanced texts text[a..b] that start with a bracket
BalancedEnds(text, a) ==
  IF text[a] \notin {"{", "["} THEN {}
  ELSE {b \in (a + 1)..Len(text) :
          text[b] \in {"}", "]"} /\ Reduces(Brackets(SubSeq(text, a, b)))}

\* the <style> and <script> regions <<from, to>> of a text, from position p on
RECURSIVE RegionsFrom(_, _)
RegionsFrom(text, p) ==
  LET low == ToLower(text)
      opens == {i \in p..Len(text) :
                  HasPrefixAt(low, i, OpenStyle) \/ HasPrefixAt(low, i, OpenScript)}
  IN IF opens = {} THEN {}
     ELSE LET o == MinOf(opens)
              closing == IF HasPrefixAt(low, o, OpenStyle) THEN CloseStyle ELSE CloseScript
              ends == {j \in o..Len(text) : HasPrefixAt(low, j, closing)}
              to == IF ends = {} THEN Len(text) ELSE MinOf(ends) + Len(closing) - 1
          IN {<<o, to>>} \cup RegionsFrom(text, to + 1)
InRegions(regions, i) == \E r \in regions : r[1] <= i /\ i <= r[2]

\* where a fragment outside the regions starts
FragmentStarts(text) ==
  LET regions == RegionsFrom(text, 1)
  IN {a \in 1..Len(text) : ~InRegions(regions, a) /\ BalancedEnds(text, a) # {}}

ScanDone == call.fn = "extractJSONFromText" /\ ret.done

C5_EmbeddedJSON ==
  (/\ Answered /\ Is2xx(call.resp.status)
   /\ call.resp.contentType # <<>>
   /\ ~isJSONContentType(call.resp.contentType)) =>
    LET found == extractJSONFromText(call.resp.body)
        carried == jsonUnmarshalReply(found.fragment)
    IN /\ (ret.err.kind = "unexpected response content type") <=> ~found.ok
       /\ (found.ok /\ carried.err = NoErr /\ carried.reply.OK /\ carried.reply.Result)
            => ret.err = NoErr

(***************************************************************************)
(* Spec: a run of main, one action per step of lines 67-135.  The flags    *)
(* -timeout and -insecure only configure the HTTP client; what they make   *)
(* of a call is among the answers a call can get.                          *)
(***************************************************************************)
\* the k-th user of the sample lists: a numeric identifier for odd k, a
\* login for even k
UserToken(k) ==
  (IF k % 2 = 1 THEN Itoa(k) ELSE <<"u">> \o Itoa(k)) \o <<":", "N">> \o Itoa(k)
RECURSIVE UserList(_)
UserList(n) ==
  IF n = 0 THEN <<>>
  ELSE IF n = 1 THEN UserToken(1)
  ELSE UserList(n - 1) \o <<";", " ">> \o UserToken(n)

UsersArgs ==
  {UserList(n) : n \in 0..MaxUsers}
    \cup {<<";">>, <<"x">>, <<"1", ":", "A", ";", ":", "B">>}
ContestsArgs == {<<>>, <<"7">>, <<"7", ",", "8">>, <<",">>, <<"7", ";", "z">>}
ActionArgs == {actionRegister, <<" ", "U", "n", "R", "e", "g", "i", "s", "t", "e", "r">>,
               <<"d", "r", "o", "p">>}
TokenArgs == {<<>>, <<" ">>, <<" ", "T", " ">>}
BaseURLArgs == {<<>>, <<"/">>, <<"h", "t", "t", "p", ":", "/", "/", "h", "/">>}
ConfigArgs == {<<>>, <<" ", "c">>}
ConfigFiles ==
  {NoFile}
    \cup {[exists |-> TRUE, content |-> c] :
            c \in {<<>>,
                   <<"{", "\"", "t", "o", "k", "e", "n", "\"", ":", "\"", "K", "\"", "}">>,
                   <<"{", "\"", "t", "o", "k", "e", "n", "\"", ":", "\"", " ", "\"", "}">>,
                   <<"{", "\"", "t", "o", "k", "\"", ":", "\"", "K", "\"", "}">>,
                   <<"{", "\"", "t", "o", "k", "e", "n", "\"", ":", "\"", "K", "\"", "}", " ", "{", "}">>}}

DriverResponses ==
  {[transport |-> t, status |-> 0, contentType |-> <<>>, body |-> <<>>] :
     t \in {"refused", "timeout"}}
    \cup {[transport |-> "ok", status |-> 200, contentType |-> ApplicationJSON, body |-> b] :
            b \in {BodyAck, BodyNotJSON, BodyUserBlocked}}

Init ==
  /\ pc = "flags"
  /\ flags \in [users : UsersArgs, contests : ContestsArgs, action : ActionArgs,
                config : ConfigArgs, token : TokenArgs, baseURL : BaseURLArgs]
  /\ configFile \in ConfigFiles
  /\ TrimSpace(flags.config) = <<>> => configFile = NoFile
  /\ action = <<>> /\ users = <<>> /\ contests = <<>> /\ cfg = ZeroConfig
  /\ token = <<>> /\ baseURL = <<>> /\ ci = 0 /\ ui = 0
  /\ calls = <<>> /\ failures = <<>> /\ logged = <<>> /\ exitCode = -1
  /\ call = NoCall /\ ret = NotDone

Inputs == <<flags, configFile, call, ret>>

\* log.Fatal
Fatal(msg) ==
  /\ pc' = "fatal"
  /\ exitCode' = 1
  /\ logged' = Append(logged, [kind |-> "fatal", msg |-> msg])
  /\ UNCHANGED <<action, users, contests, cfg, token, baseURL, ci, ui, calls, failures>>
  /\ UNCHANGED Inputs

\* lines 67-72
CheckRequiredFlags ==
  /\ pc = "flags"
  /\ IF flags.users = <<>> THEN Fatal("the -users flag is required")
     ELSE IF flags.contests = <<>> THEN Fatal("the -contests flag is required")
     ELSE /\ pc' = "parseAction"
          /\ UNCHANGED <<action, users, contests, cfg, token, baseURL, ci, ui, calls,
                         failures, logged, exitCode>>
          /\ UNCHANGED Inputs

\* lines 74-77
ParseActionStep ==
  /\ pc = "parseAction"
  /\ LET r == parseAction(flags.action)
     IN IF r.err # NoErr THEN Fatal("invalid action")
        ELSE /\ pc' = "parseUsers"
             /\ action' = r.action
             /\ UNCHANGED <<users, contests, cfg, token, baseURL, ci, ui, calls,
                            failures, logged, exitCode>>
             /\ UNCHANGED Inputs

\* lines 79-82
ParseUsersStep ==
  /\ pc = "parseUsers"
  /\ LET r == parseUsers(flags.users)
     IN IF r.err # NoErr THEN Fatal("failed to parse users")
        ELSE /\ pc' = "parseContests"
             /\ users' = r.users
             /\ UNCHANGED <<action, contests, cfg, token, baseURL, ci, ui, calls,
                            failures, logged, exitCode>>
             /\ UNCHANGED Inputs

\* lines 84-87
ParseContestsStep ==
  /\ pc = "parseContests"
  /\ LET r == parseContestIDs(flags.contests)
     IN IF r.err # NoErr THEN Fatal("failed to parse contests")
        ELSE /\ pc' = "loadConfig"
             /\ contests' = r.ids
             /\ UNCHANGED <<action, users, cfg, token, baseURL, ci, ui, calls,
                            failures, logged, exitCode>>
             /\ UNCHANGED Inputs

\* lines 89-92
LoadConfigStep ==
  /\ pc = "loadConfig"
  /\ LET r == loadConfig(TrimSpace(flags.config), configFile)
     IN IF r.err # NoErr THEN Fatal("failed to load config")
        ELSE /\ pc' = "token"
             /\ cfg' = r.cfg
             /\ UNCHANGED <<action, users, contests, token, baseURL, ci, ui, calls,
                            failures, logged, exitCode>>
             /\ UNCHANGED Inputs

\* lines 94-100
ResolveTokenStep ==
  /\ pc = "token"
  /\ LET t == resolveToken(flags.token, cfg)
     IN IF t = <<>> THEN Fatal("no API token provided")
        ELSE /\ pc' = "baseURL"
             /\ token' = t
             /\ UNCHANGED <<action, users, contests, cfg, baseURL, ci, ui, calls,
                            failures, logged, exitCode>>
             /\ UNCHANGED Inputs

\* lines 102-105
ResolveBaseURLStep ==
  /\ pc = "baseURL"
  /\ LET b == TrimSuffix(flags.baseURL, <<"/">>)
     IN IF b = <<>> THEN Fatal("the base URL must not be empty")
        ELSE /\ pc' = "client"
             /\ baseURL' = b
             /\ UNCHANGED <<action, users, contests, cfg, token, ci, ui, calls,
                            failures, logged, exitCode>>
             /\ UNCHANGED Inputs

\* lines 107-119: the client is built and the loop entered
EnterLoop ==
  /\ pc = "client"
  /\ pc' = "loop"
  /\ ci' = 1 /\ ui' = 1
  /\ UNCHANGED <<action, users, contests, cfg, token, baseURL, calls, failures, logged,
                 exitCode>>
  /\ UNCHANGED Inputs

\* lines 120-126: one call of changeRegistration, answered by resp
CallStep ==
  /\ pc = "loop"
  /\ ci <= Len(contests)
  /\ \E resp \in DriverResponses :
       LET contestID == contests[ci]
           user == users[ui]
           r == changeRegistration(baseURL, token, contestID, user, action, resp)
       IN /\ calls' = Append(calls, [contestID |-> contestID, user |-> user,
                                     sent |-> r.sent, err |-> r.err])
          /\ IF r.err # NoErr
               THEN /\ failures' = Append(failures, [contestID |-> contestID,
                                            user |-> userIdentifier(user), err |-> r.err])
                    /\ logged' = logged
               ELSE /\ failures' = failures
                    /\ logged' = Append(logged, [kind |-> "done", verb |-> actionVerb(action),
                                          user |-> userIdentifier(user),
                                          contestID |-> contestID])
  /\ ci' = nextPair(ci, ui, Len(users))[1]
  /\ ui' = nextPair(ci, ui, Len(users))[2]
  /\ UNCHANGED <<pc, action, users, contests, cfg, token, baseURL, exitCode>>
  /\ UNCHANGED Inputs

\* lines 129-135
Report ==
  /\ pc = "loop"
  /\ ci > Len(contests)
  /\ pc' = "done"
  /\ logged' = logged \o [k \in 1..Len(failures) |-> [kind |-> "error", failure |-> failures[k]]]
  /\ exitCode' = exitStatus(failures)
  /\ UNCHANGED <<action, users, contests, cfg, token, baseURL, ci, ui, calls, failures>>
  /\ UNCHANGED Inputs

Next ==
  \/ CheckRequiredFlags \/ ParseActionStep \/ ParseUsersStep \/ ParseContestsStep
  \/ LoadConfigStep \/ ResolveTokenStep \/ ResolveBaseURLStep \/ EnterLoop
  \/ CallStep \/ Report

Spec == Init /\ [][Next]_vars

(***************************************************************************)
(* The driver loop and the exit status.                                    *)
(***************************************************************************)
\* the k-th pair of the product, contests outer, users inner
PairContest(k) == contests[((k - 1) \div Len(users)) + 1]
PairUser(k) == users[((k - 1) % Len(users)) + 1]
Pairs == Len(contests) * Len(users)

\* C1: the loop calls changeRegistration exactly once for every (contest,
\* user) pair, contests outer and users inner, in input order, whatever the
\* calls return: the calls made so far are the first pairs of the product,
\* the loop goes on while pairs are left, and the run is over only when all
\* were called.
C1_EveryPairOnceInOrder ==
  /\ Len(calls) <= Pairs
  /\ \A k \in 1..Len(calls) :
       /\ calls[k].contestID = PairContest(k)
       /\ calls[k].user = PairUser(k)
       /\ Len(calls[k].sent) = 1
  /\ pc = "loop" =>
       /\ Len(calls) = (ci - 1) * Len(users) + (ui - 1)
       /\ ui <= Len(users)
       /\ (Len(calls) < Pairs) <=> (ci <= Len(contests))
  /\ pc = "done" => Len(calls) = Pairs

\* C1 witness: two contests and two users, the first call failed and the
\* three calls after it were still made, the second with success.
C1_Witness ==
  /\ pc = "done"
  /\ Len(contests) = 2 /\ Len(users) = 2
  /\ Len(calls) = 4
  /\ calls[1].err # NoErr
  /\ calls[2].err = NoErr
  /\ calls[3].err.kind = "sending request"

\* the failure lines of the failed calls, in the order of the calls
RECURSIVE FailuresOf(_)
FailuresOf(cs) ==
  IF cs = <<>> THEN <<>>
  ELSE (IF Head(cs).err # NoErr
          THEN <<[contestID |-> Head(cs).contestID, user |-> userIdentifier(Head(cs).user),
                  err |-> Head(cs).err]>>
          ELSE <<>>) \o FailuresOf(Tail(cs))
RECURSIVE ErrorLines(_)
ErrorLines(lines) ==
  IF lines = <<>> THEN <<>>
  ELSE (IF Head(lines).kind = "error" THEN <<Head(lines).failure>> ELSE <<>>)
         \o ErrorLines(Tail(lines))

\* C2: once the loop is entered the exit status is decided only after every
\* pair was attempted, it is non-zero exactly when some call returned an
\* error, and the failures recorded (and reported) are the failed calls, in
\* the order of the calls.
C2_ExitStatus ==
  /\ pc \in {"loop", "done"} => failures = FailuresOf(calls)
  /\ pc = "loop" => exitCode = -1 /\ ErrorLines(logged) = <<>>
  /\ pc = "done" =>
       /\ Len(calls) = Pairs
       /\ exitCode \in {0, 1}
       /\ (exitCode # 0) <=> (\E k \in 1..Len(calls) : calls[k].err # NoErr)
       /\ ErrorLines(logged) = failures

\* C2 witness: four calls, the second and the fourth failed, two failures
\* reported, exit status 1.
C2_Witness ==
  /\ pc = "done"
  /\ Len(calls) = 4
  /\ calls[1].err = NoErr /\ calls[2].err # NoErr
  /\ calls[3].err = NoErr /\ calls[4].err # NoErr
  /\ Len(failures) = 2
  /\ exitCode = 1

Blank(s) == \A i \in 1..Len(s) : s[i] \in {" ", "\t", "\n", "\r"}

\* the flags and the configuration file pass every check of lines 67-105
RunIsValid ==
  /\ flags.users # <<>>
  /\ flags.contests # <<>>
  /\ parseAction(flags.action).err = NoErr
  /\ parseUsers(flags.users).err = NoErr
  /\ parseContestIDs(flags.contests).err = NoErr
  /\ loadConfig(TrimSpace(flags.config), configFile).err = NoErr
  /\ ~(Blank(flags.token) /\ Blank(loadConfig(TrimSpace(flags.config), configFile).cfg.Token))
  /\ flags.baseURL \notin {<<>>, <<"/">>}

\* C3: in a run where a required flag is missing, the action, the user list
\* or the contest list does not parse, the config file does not load, the
\* resolved token is empty or the base URL is empty after stripping the
\* trailing slash, no call is ever made: the loop is not entered and the
\* process stops with a non-zero status.
C3_NoRequestWhenInvalid ==
  ~RunIsValid =>
    /\ calls = <<>>
    /\ pc \notin {"client", "loop", "done"}
    /\ pc = "fatal" => exitCode = 1
    /\ pc # "fatal" => exitCode = -1

\* C3 witness: the -token flag is blank and the token of the config file is
\* blank too; the run stopped there with status 1 and without any call.
C3_Witness ==
  /\ pc = "fatal"
  /\ exitCode = 1
  /\ calls = <<>>
  /\ flags.token = <<" ">>
  /\ loadConfig(TrimSpace(flags.config), configFile).err = NoErr
  /\ configFile.exists
  /\ logged = <<[kind |-> "fatal", msg |-> "no API token provided"]>>

====
